---- MODULE Spec2Model ----
(***************************************************************************)
(* Model of the PdfViewerTrueFullWidth React component                     *)
(* (src/unnamed/part_001): the single state object, the closures captured  *)
(* by the memoized callbacks, the object-URL (binary handle) lifecycle,    *)
(* and the catalog / binary fetches with their responses in flight.        *)
(*                                                                         *)
(* `state' is the component state with every queued updateState applied;   *)
(* `rendered' is the state of the last committed render, i.e. the values   *)
(* the event handlers of the DOM have closed over.  A handler runs to its  *)
(* first await as one step, each continuation after an await is one step,  *)
(* and React's re-render (with the cleanup of the [pdfUrl] effect) is the  *)
(* step Commit, which is taken before any further event is handled.        *)
(***************************************************************************)
EXTENDS Integers, Sequences, FiniteSets, TLC

\* ---------------------------------------------------------------- bounds
MaxFetches == 2        \* binary requests issued in one behaviour
MaxListLoads == 2      \* catalog requests issued in one behaviour
MaxPages == 3          \* largest page count the rendering library reports
MaxDigits == 5         \* base-1024 digits of the byte counts formatted
MaxScale == 16         \* largest zoom factor explored, in tenths

\* ------------------------------------------------------------- constants
NoHandle == 0          \* pdfUrl: null
NoDoc == 0             \* selectedDocument: null / initialDocumentId: undefined
NoPages == 0           \* numPages: null
NoError == <<>>        \* error: null

\* The zoom factor is a JavaScript number, an IEEE-754 double. Every double
\* from 0.25 up to 4 is a whole number of units of 2^-54, and so are the sums
\* and differences of two of them; a double is kept as that number of units,
\* written in two limbs: hi * 2^27 + lo with 0 <= lo < 2^27.
Limb == 2^27
InitialScale == [hi |-> 134217728, lo |-> 0]       \* scale: 1.0
ScaleStep == [hi |-> 26843545, lo |-> 80530637]    \* the double nearest 0.2
MinScale == [hi |-> 40265318, lo |-> 53687091]     \* the double nearest 0.3

\* The spacing of the doubles around hi * 2^27, in units: 53 significant bits.
Quantum(hi) ==
    IF hi >= 2 * Limb THEN 8
    ELSE IF hi >= Limb THEN 4
    ELSE IF 2 * hi >= Limb THEN 2
    ELSE 1

\* the exact result hi * 2^27 + lo rounded to the nearest double, ties to the
\* even significand
RoundToNearestEven(hi, lo) ==
    LET q == Quantum(hi)
        r == lo % q
        down == lo - r
        lo2 == IF r = 0 THEN lo
               ELSE IF 2 * r < q THEN down
               ELSE IF 2 * r > q THEN down + q
               ELSE IF (down \div q) % 2 = 0 THEN down
               ELSE down + q
    IN  IF lo2 >= Limb THEN [hi |-> hi + 1, lo |-> lo2 - Limb]
        ELSE [hi |-> hi, lo |-> lo2]

\* a + b and a - b of two JavaScript numbers
FloatAdd(a, b) ==
    LET lo == a.lo + b.lo
    IN  IF lo >= Limb THEN RoundToNearestEven(a.hi + b.hi + 1, lo - Limb)
        ELSE RoundToNearestEven(a.hi + b.hi, lo)
FloatSub(a, b) ==
    LET lo == a.lo - b.lo
    IN  IF lo < 0 THEN RoundToNearestEven(a.hi - b.hi - 1, lo + Limb)
        ELSE RoundToNearestEven(a.hi - b.hi, lo)

\* a <= b and Math.max(a, b)
FloatLeq(a, b) == a.hi < b.hi \/ (a.hi = b.hi /\ a.lo <= b.lo)
FloatMax(a, b) == IF FloatLeq(a, b) THEN b ELSE a

\* the zoom factor x is within the range explored: x <= MaxScale / 10, up to
\* the coarser grain of 2^-17
ScaleExplored(x) == 10 * (x.hi \div 1024) <= MaxScale * (Limb \div 1024)

\* The ids of the document records the server can list; the pages of the
\* repository pass initialDocumentId = "1" (or nothing).
DocIds == {1, 2}
InitialDocumentIds == {NoDoc, 1}
Handles == 1..MaxFetches

\* The catalogs a server response may carry: sequences of distinct records.
Catalogs ==
    {c \in UNION {[1..n -> DocIds] : n \in 0..Cardinality(DocIds)} :
        \A i, j \in DOMAIN c : i # j => c[i] # c[j]}

\* Content-Type header values, as sequences of text pieces.
PdfMediaType == <<"application/pdf">>
ContentTypes ==
    { <<"application/pdf">>,
      <<"application/pdf", "; charset=utf-8">>,
      <<"text/html">>,
      <<"Application/PDF">> }

\* String.prototype.includes on the pieces of a header value.
Includes(s, sub) ==
    \E i \in 1..(Len(s) - Len(sub) + 1) : SubSeq(s, i, i + Len(sub) - 1) = sub

\* A binary response as the fetch continuation sees it.
\* kind "reject": fetch() rejected with an Error carrying `message';
\* kind "http": fetch() resolved; bodyOk = FALSE when response.blob() then
\* rejects with an Error carrying `message'.
HttpResponse(st, hasCt, ct, body) ==
    [kind |-> "http", status |-> st, hasContentType |-> hasCt,
     contentType |-> ct, bodyOk |-> body,
     message |-> IF body THEN "" ELSE "network error"]

NetworkError ==
    [kind |-> "reject", status |-> "0", hasContentType |-> FALSE,
     contentType |-> <<>>, bodyOk |-> FALSE, message |-> "Failed to fetch"]

Responses ==
    {NetworkError}
    \cup {HttpResponse("200", TRUE, ct, TRUE) : ct \in ContentTypes}
    \cup {HttpResponse("404", TRUE, ct, TRUE) : ct \in {PdfMediaType, <<"text/html">>}}
    \cup {HttpResponse("200", FALSE, <<>>, TRUE)}
    \cup {HttpResponse("200", TRUE, PdfMediaType, FALSE)}

NoResponse ==
    [kind |-> "none", status |-> "0", hasContentType |-> FALSE,
     contentType |-> <<>>, bodyOk |-> FALSE, message |-> ""]

NoDelivery == [id |-> 0, doc |-> 0, resp |-> NoResponse]

\* ------------------------------------------------------ document records
\* Text is a sequence of characters.
FileNames == {<<"a", "B">>, <<"b">>}
Authors == {<<"A">>, <<"b", "a">>}
Categories == {"x", "y"}
SearchQueries == {<<>>, <<"a">>, <<"A", "b">>, <<"B">>}

\* fileName, author and category of a DocumentTypeFile
DocumentRecords == [fileName : FileNames, author : Authors, category : Categories]

DefaultRecords ==
    [id \in DocIds |->
        IF id = 1 THEN [fileName |-> <<"a", "B">>, author |-> <<"A">>, category |-> "x"]
        ELSE [fileName |-> <<"b">>, author |-> <<"b", "a">>, category |-> "y"]]

\* ------------------------------------------------------ formatFileSize
\* k of formatFileSize
K == 1024

\* A byte count is written in base K, most significant digit first and
\* without leading zero, so that counts of K^4 and above can be stated.
ByteDigits == {0, 1, K - 1}
ZeroBytes == <<0>>
FileSizes ==
    {ZeroBytes} \cup
    {b \in UNION {[1..n -> ByteDigits] : n \in 1..MaxDigits} : b[1] # 0}

\* const sizes = ['Bytes', 'KB', 'MB', 'GB']
Sizes == <<"Bytes", "KB", "MB", "GB">>
NoUnit == "none"

\* Math.floor(Math.log(bytes) / Math.log(k)): for a positive count, the
\* position of its leading base-K digit
UnitIndex(bytes) == Len(bytes) - 1

\* sizes[i] inside the string concatenation; an index past the array gives
\* undefined, which concatenates as "undefined"
SizeLabel(i) == IF i + 1 \in DOMAIN Sizes THEN Sizes[i + 1] ELSE "undefined"

\* the unit in the text formatFileSize returns
FormatFileSizeUnit(bytes) ==
    IF bytes = ZeroBytes THEN "Bytes" ELSE SizeLabel(UnitIndex(bytes))

\* --------------------------------------------------------------- state
VARIABLES
    state,              \* the useState object, queued updates applied
    rendered,           \* the state of the last committed render
    mounted,            \* the component has not been unmounted
    initialDocumentId,  \* the prop of that name
    pdfRequests,        \* binary requests in flight: [id, doc]
    nextRequest,        \* number of binary requests issued so far
    maxAnswered,        \* largest id of a binary request answered so far
    delivered,          \* the binary response the last step handled, if any
    listInFlight,       \* a catalog request is in flight
    listLoads,          \* number of catalog requests issued so far
    createdCount,       \* handles made by URL.createObjectURL: 1..createdCount
    revokeCount,        \* per handle, the calls of URL.revokeObjectURL
    loadCalls,          \* number of onDocumentLoad calls so far
    lastLoaded,         \* the argument of the latest onDocumentLoad call
    pagesReported,      \* the handle whose page count <Document> has reported
    pageChangeCalls,    \* the arguments of the onPageChange calls of the last step
    records,            \* the metadata of the document records, by id
    fileSize,           \* a byte count given to formatFileSize, in base 1024
    sizeUnit            \* the unit label formatFileSize has put in its result

vars == <<state, rendered, mounted, initialDocumentId, pdfRequests, nextRequest,
          maxAnswered, delivered, listInFlight, listLoads, createdCount,
          revokeCount, loadCalls, lastLoaded, pagesReported, pageChangeCalls,
          records, fileSize, sizeUnit>>

Created == 1..createdCount
Live == {h \in Created : revokeCount[h] = 0}

\* setState(prev => ({...prev, ...updates}))
UpdateState(s, updates) ==
    [f \in DOMAIN s |-> IF f \in DOMAIN updates THEN updates[f] ELSE s[f]]

\* A setState on an unmounted component is dropped by React.
Applied(s) == IF mounted THEN s ELSE state

InitialState ==
    [pdfUrl |-> NoHandle,
     documents |-> <<>>,
     selectedDocument |-> NoDoc,
     numPages |-> NoPages,
     pageNumber |-> 1,
     scale |-> InitialScale,
     loading |-> FALSE,
     listLoading |-> TRUE,
     error |-> NoError,
     searchQuery |-> <<>>,
     selectedCategory |-> "all"]

\* After the first render and the mount effect, which calls fetchDocuments.
Init ==
    /\ state = InitialState
    /\ rendered = InitialState
    /\ mounted = TRUE
    /\ initialDocumentId \in InitialDocumentIds
    /\ pdfRequests = {}
    /\ nextRequest = 0
    /\ maxAnswered = 0
    /\ delivered = NoDelivery
    /\ listInFlight = TRUE
    /\ listLoads = 1
    /\ createdCount = 0
    /\ revokeCount = [h \in Handles |-> 0]
    /\ loadCalls = 0
    /\ lastLoaded = NoDoc
    /\ pagesReported = NoHandle
    /\ pageChangeCalls = <<>>
    /\ records = DefaultRecords
    /\ fileSize = ZeroBytes
    /\ sizeUnit = NoUnit

\* URL.revokeObjectURL(url), guarded by `if (url)' at both call sites
Revoke(rc, url) ==
    IF url # NoHandle THEN [rc EXCEPT ![url] = @ + 1] ELSE rc

\* (variant: the old URL is revoked but pdfUrl is not cleared)
RevokeBeforeFetch_NoClear(s, url) == s

\* fetchPdf, lines 256-259: the state after the revoke-and-clear
RevokeBeforeFetch(s, url) ==
    IF url # NoHandle THEN UpdateState(s, [pdfUrl |-> NoHandle]) ELSE s

\* fetchPdf up to its await: s is the state the handler has produced so far,
\* url the pdfUrl its closure captured.
FetchPdfState(s, url) ==
    RevokeBeforeFetch(UpdateState(s, [loading |-> TRUE, error |-> NoError]), url)

FetchPdfIssue(s, url, doc) ==
    /\ nextRequest < MaxFetches
    /\ state' = Applied(FetchPdfState(s, url))
    /\ revokeCount' = Revoke(revokeCount, url)
    /\ nextRequest' = nextRequest + 1
    /\ pdfRequests' = pdfRequests \cup {[id |-> nextRequest + 1, doc |-> doc]}

\* The events of the page are handled on a committed render.
Idle == mounted /\ state = rendered

ElemsOf(seq) == {seq[i] : i \in DOMAIN seq}

\* -------------------------------------------------------------- filter
LowerChar(c) == CASE c = "A" -> "a" [] c = "B" -> "b" [] OTHER -> c

\* String.prototype.toLowerCase
ToLowerCase(text) == [i \in DOMAIN text |-> LowerChar(text[i])]

\* (variant: the query is compared without lower-casing)
MatchesSearch_CaseSensitive(rec, query) ==
    Includes(rec.fileName, query) \/ Includes(rec.author, query)

MatchesSearch(rec, query) ==
    \/ Includes(ToLowerCase(rec.fileName), ToLowerCase(query))
    \/ Includes(ToLowerCase(rec.author), ToLowerCase(query))

MatchesCategory(rec, category) == category = "all" \/ rec.category = category

\* documents.filter(...) of the render with state s
FilteredDocuments(s, recs) ==
    SelectSeq(s.documents,
              LAMBDA id : /\ MatchesSearch(recs[id], s.searchQuery)
                          /\ MatchesCategory(recs[id], s.selectedCategory))

\* ['all', ...new Set(documents.map(doc => doc.category))]
CategoryOptions(s, recs) ==
    {"all"} \cup {recs[id].category : id \in ElemsOf(s.documents)}

\* ------------------------------------------------------ binary responses
\* (variant: the status check is missing)
ResponseOk_Always(resp) == TRUE

\* response.ok
ResponseOk(resp) == resp.status = "200"

\* (variant: the header must equal the media type)
ContentTypeOk_Exact(resp) ==
    resp.hasContentType /\ resp.contentType = PdfMediaType

\* (variant: any header that is present passes)
ContentTypeOk_Present(resp) == resp.hasContentType

\* !contentType?.includes('application/pdf') is false
ContentTypeOk(resp) ==
    resp.hasContentType /\ Includes(resp.contentType, PdfMediaType)

\* The message of the Error the try block of fetchPdf throws; <<>> when the
\* block runs to its end.
FetchError(resp) ==
    IF resp.kind = "reject" THEN <<resp.message>>
    ELSE IF ~ResponseOk(resp) THEN <<"HTTP error! status: ", resp.status>>
    ELSE IF ~ContentTypeOk(resp) THEN <<"Server response is not a valid PDF file">>
    ELSE IF ~resp.bodyOk THEN <<resp.message>>
    ELSE <<>>

\* updateState of the success continuation
LoadedState(s, url, doc) ==
    UpdateState(s, [pdfUrl |-> url, selectedDocument |-> doc,
                    pageNumber |-> 1, loading |-> FALSE])

\* (variant: the catch block leaves loading set)
FailedState_KeepsLoading(s, message) ==
    UpdateState(s, [error |-> <<"Failed to load PDF: ">> \o message])

\* updateState of the catch block
FailedState(s, message) ==
    UpdateState(s, [error |-> <<"Failed to load PDF: ">> \o message,
                    loading |-> FALSE])

\* (variant: the callback is given the record selected before)
OnDocumentLoadArg_Selected(r, s) == s.selectedDocument

\* the argument of onDocumentLoad?.(document)
OnDocumentLoadArg(r, s) == r.doc

\* The continuation of fetchPdf after its awaits, for the request r.
PdfResponse(r, resp) ==
    /\ r \in pdfRequests
    /\ mounted => state = rendered
    /\ pdfRequests' = pdfRequests \ {r}
    /\ maxAnswered' = IF r.id > maxAnswered THEN r.id ELSE maxAnswered
    /\ delivered' = [id |-> r.id, doc |-> r.doc, resp |-> resp]
    /\ IF FetchError(resp) = <<>>
         THEN /\ createdCount' = createdCount + 1
              /\ state' = Applied(LoadedState(state, createdCount + 1, r.doc))
              /\ loadCalls' = loadCalls + 1
              /\ lastLoaded' = OnDocumentLoadArg(r, state)
         ELSE /\ state' = Applied(FailedState(state, FetchError(resp)))
              /\ UNCHANGED <<createdCount, loadCalls, lastLoaded>>
    /\ pageChangeCalls' = <<>>
    /\ UNCHANGED <<pagesReported, records,
                   fileSize, sizeUnit>>
    /\ UNCHANGED <<rendered, mounted, initialDocumentId, nextRequest,
                   listInFlight, listLoads, revokeCount>>

\* --------------------------------------------------------- user events
\* click on a document item: handleDocumentSelect -> fetchPdf
HandleDocumentSelect(doc) ==
    /\ Idle
    /\ ~rendered.listLoading
    /\ doc \in ElemsOf(FilteredDocuments(rendered, records))
    /\ FetchPdfIssue(state, rendered.pdfUrl, doc)
    /\ delivered' = NoDelivery
    /\ pageChangeCalls' = <<>>
    /\ UNCHANGED <<pagesReported, records,
                   fileSize, sizeUnit>>
    /\ UNCHANGED <<rendered, mounted, initialDocumentId, maxAnswered,
                   listInFlight, listLoads, createdCount, loadCalls, lastLoaded>>

\* the document header with the control buttons is rendered
ControlsShown(s) == s.selectedDocument # NoDoc

\* disabled of the Reload control
ReloadDisabled(s) == s.loading \/ s.selectedDocument = NoDoc

\* a click on Reload reaches fetchPdf
ReloadAvailable(s) == ControlsShown(s) /\ ~ReloadDisabled(s)

\* the Reload control button
ReloadDocument ==
    /\ Idle
    /\ ReloadAvailable(rendered)
    /\ FetchPdfIssue(state, rendered.pdfUrl, rendered.selectedDocument)
    /\ delivered' = NoDelivery
    /\ pageChangeCalls' = <<>>
    /\ UNCHANGED <<pagesReported, records,
                   fileSize, sizeUnit>>
    /\ UNCHANGED <<rendered, mounted, initialDocumentId, maxAnswered,
                   listInFlight, listLoads, createdCount, loadCalls, lastLoaded>>

\* the error view, with its Try Again button, is rendered
ErrorShown(s) == s.error # NoError /\ ~s.loading

\* (variant: Try Again falls back to no guard on selectedDocument)
RetryAvailable_Always(s) == ErrorShown(s)

\* a click on Try Again reaches fetchPdf: selectedDocument && fetchPdf(...)
RetryAvailable(s) == ErrorShown(s) /\ s.selectedDocument # NoDoc

\* the Try Again button of the error view
Retry ==
    /\ Idle
    /\ RetryAvailable(rendered)
    /\ FetchPdfIssue(state, rendered.pdfUrl, rendered.selectedDocument)
    /\ delivered' = NoDelivery
    /\ pageChangeCalls' = <<>>
    /\ UNCHANGED <<pagesReported, records,
                   fileSize, sizeUnit>>
    /\ UNCHANGED <<rendered, mounted, initialDocumentId, maxAnswered,
                   listInFlight, listLoads, createdCount, loadCalls, lastLoaded>>

\* the PDF viewer is on screen
ViewerShown(s) == s.pdfUrl # NoHandle /\ ~s.loading /\ s.error = NoError

\* onLoadError of <Document>
OnLoadError ==
    /\ Idle
    /\ ViewerShown(rendered)
    /\ state' = UpdateState(state, [error |-> <<"Failed to load PDF content">>])
    /\ delivered' = NoDelivery
    /\ pageChangeCalls' = <<>>
    /\ UNCHANGED <<pagesReported, records,
                   fileSize, sizeUnit>>
    /\ UNCHANGED <<rendered, mounted, initialDocumentId, pdfRequests, nextRequest,
                   maxAnswered, listInFlight, listLoads,
                   createdCount, revokeCount, loadCalls, lastLoaded>>

\* ------------------------------------------------------------- catalog
\* the refresh button: fetchDocuments up to its await
FetchDocuments ==
    /\ Idle
    /\ ~rendered.listLoading
    /\ listLoads < MaxListLoads
    /\ state' = UpdateState(state, [listLoading |-> TRUE, error |-> NoError])
    /\ listInFlight' = TRUE
    /\ listLoads' = listLoads + 1
    /\ delivered' = NoDelivery
    /\ pageChangeCalls' = <<>>
    /\ UNCHANGED <<pagesReported, records,
                   fileSize, sizeUnit>>
    /\ UNCHANGED <<rendered, mounted, initialDocumentId, pdfRequests, nextRequest,
                   maxAnswered, createdCount, revokeCount, loadCalls, lastLoaded>>

\* (variant: the first record is auto-selected instead of the one found)
InitialDoc_First(docs) ==
    IF initialDocumentId # NoDoc /\ Len(docs) > 0 THEN docs[1] ELSE NoDoc

\* the record fetchDocuments auto-selects, NoDoc when it selects none
InitialDoc(docs) ==
    IF initialDocumentId # NoDoc /\ Len(docs) > 0
       /\ initialDocumentId \in ElemsOf(docs)
    THEN initialDocumentId ELSE NoDoc

\* The pdfUrl seen by the fetchPdf that fetchDocuments reaches: fetchDocuments
\* is memoized on [initialDocumentId, updateState], so it keeps the
\* handleDocumentSelect, and through it the fetchPdf, of the first render.
FirstRenderPdfUrl == InitialState.pdfUrl

\* the continuation of fetchDocuments on a 2xx response with a JSON body
DocumentsLoaded(docs) ==
    /\ listInFlight
    /\ mounted => state = rendered
    /\ listInFlight' = FALSE
    /\ LET s1 == UpdateState(state, [documents |-> docs, listLoading |-> FALSE])
       IN IF InitialDoc(docs) # NoDoc
            THEN FetchPdfIssue(s1, FirstRenderPdfUrl, InitialDoc(docs))
            ELSE /\ state' = Applied(s1)
                 /\ UNCHANGED <<pdfRequests, nextRequest, revokeCount>>
    /\ delivered' = NoDelivery
    /\ pageChangeCalls' = <<>>
    /\ UNCHANGED <<pagesReported, records,
                   fileSize, sizeUnit>>
    /\ UNCHANGED <<rendered, mounted, initialDocumentId, maxAnswered,
                   listLoads, createdCount, loadCalls, lastLoaded>>

\* (variant: the catch block also empties the list)
DocumentsFailedState_ClearsList(s) ==
    UpdateState(s, [error |-> <<"Failed to load documents from server">>,
                    listLoading |-> FALSE, documents |-> <<>>])

\* updateState of the catch block of fetchDocuments
DocumentsFailedState(s) ==
    UpdateState(s, [error |-> <<"Failed to load documents from server">>,
                    listLoading |-> FALSE])

\* the catch block of fetchDocuments
DocumentsFailed ==
    /\ listInFlight
    /\ mounted => state = rendered
    /\ listInFlight' = FALSE
    /\ state' = Applied(DocumentsFailedState(state))
    /\ delivered' = NoDelivery
    /\ pageChangeCalls' = <<>>
    /\ UNCHANGED <<pagesReported, records,
                   fileSize, sizeUnit>>
    /\ UNCHANGED <<rendered, mounted, initialDocumentId, pdfRequests, nextRequest,
                   maxAnswered, listLoads, createdCount,
                   revokeCount, loadCalls, lastLoaded>>

\* ------------------------------------------------------ React lifecycle
\* the handle the cleanup of the [pdfUrl] effect revokes when the component
\* re-renders with the state s
CleanupOnRender(prev, s) ==
    IF prev.pdfUrl # s.pdfUrl THEN prev.pdfUrl ELSE NoHandle

\* re-render after a state update; the effect cleanup of the previous render
\* runs when pdfUrl has changed
Commit ==
    /\ mounted
    /\ state # rendered
    /\ rendered' = state
    /\ revokeCount' = Revoke(revokeCount, CleanupOnRender(rendered, state))
    /\ delivered' = NoDelivery
    /\ pageChangeCalls' = <<>>
    /\ UNCHANGED <<pagesReported, records,
                   fileSize, sizeUnit>>
    /\ UNCHANGED <<state, mounted, initialDocumentId, pdfRequests, nextRequest,
                   maxAnswered, listInFlight, listLoads,
                   createdCount, loadCalls, lastLoaded>>

\* the handle the effect cleanup revokes at unmount
CleanupOnUnmount(prev) == prev.pdfUrl

\* the viewer is torn down
Unmount ==
    /\ Idle
    /\ mounted' = FALSE
    /\ revokeCount' = Revoke(revokeCount, CleanupOnUnmount(rendered))
    /\ delivered' = NoDelivery
    /\ pageChangeCalls' = <<>>
    /\ UNCHANGED <<pagesReported, records,
                   fileSize, sizeUnit>>
    /\ UNCHANGED <<state, rendered, initialDocumentId, pdfRequests, nextRequest,
                   maxAnswered, listInFlight, listLoads,
                   createdCount, loadCalls, lastLoaded>>

\* ------------------------------------------------- pages, zoom, filter
Max(a, b) == IF a >= b THEN a ELSE b
Min(a, b) == IF a <= b THEN a ELSE b

\* numPages || 1
PagesOr1(s) == IF s.numPages # NoPages THEN s.numPages ELSE 1

\* (variant: the current page is clamped to the reported count)
PagesReportedState_Clamped(s, n) ==
    UpdateState(s, [numPages |-> n, pageNumber |-> Min(s.pageNumber, n)])

\* updateState({ numPages })
PagesReportedState(s, n) == UpdateState(s, [numPages |-> n])

\* onLoadSuccess of <Document>: once for the file it has loaded
OnDocumentLoadSuccess(n) ==
    /\ Idle
    /\ ViewerShown(rendered)
    /\ pagesReported # rendered.pdfUrl
    /\ state' = PagesReportedState(state, n)
    /\ pagesReported' = rendered.pdfUrl
    /\ pageChangeCalls' = <<>>
    /\ delivered' = NoDelivery
    /\ UNCHANGED <<rendered, mounted, initialDocumentId, pdfRequests, nextRequest,
                   maxAnswered, listInFlight, listLoads, createdCount,
                   revokeCount, loadCalls, lastLoaded, records,
                   fileSize, sizeUnit>>

\* (variant: the upper clamp is missing)
GoToNextPageTarget_NoClamp(s) == s.pageNumber + 1

GoToPreviousPageTarget(s) == Max(s.pageNumber - 1, 1)
GoToNextPageTarget(s) == Min(s.pageNumber + 1, PagesOr1(s))
GoToFirstPageTarget(s) == 1
GoToLastPageTarget(s) == PagesOr1(s)

\* (variant: onPageChange is given the page before the move)
PageChangeArg_Old(s, newPage) == s.pageNumber

\* the argument of onPageChange?.(newPage)
PageChangeArg(s, newPage) == newPage

\* the body shared by the four navigation callbacks
NavigateTo(newPage) ==
    /\ Idle
    /\ state' = UpdateState(state, [pageNumber |-> newPage])
    /\ pageChangeCalls' = <<PageChangeArg(rendered, newPage)>>
    /\ delivered' = NoDelivery
    /\ UNCHANGED <<rendered, mounted, initialDocumentId, pdfRequests, nextRequest,
                   maxAnswered, listInFlight, listLoads, createdCount,
                   revokeCount, loadCalls, lastLoaded, pagesReported, records,
                   fileSize, sizeUnit>>

GoToPreviousPage == NavigateTo(GoToPreviousPageTarget(rendered))
GoToNextPage == NavigateTo(GoToNextPageTarget(rendered))
GoToFirstPage == NavigateTo(GoToFirstPageTarget(rendered))
GoToLastPage == NavigateTo(GoToLastPageTarget(rendered))

\* disabled of the First / Previous and of the Next / Last controls
BackwardDisabled(s) == s.pageNumber <= 1 \/ s.loading
ForwardDisabled(s) == s.pageNumber >= PagesOr1(s) \/ s.loading

\* (variant: the floor is missing)
ZoomOutScale_NoFloor(s) == FloatSub(s.scale, ScaleStep)

ZoomInScale(s) == FloatAdd(s.scale, ScaleStep)
ZoomOutScale(s) == FloatMax(FloatSub(s.scale, ScaleStep), MinScale)

SetScale(newScale) ==
    /\ Idle
    /\ state' = UpdateState(state, [scale |-> newScale])
    /\ pageChangeCalls' = <<>>
    /\ delivered' = NoDelivery
    /\ UNCHANGED <<rendered, mounted, initialDocumentId, pdfRequests, nextRequest,
                   maxAnswered, listInFlight, listLoads, createdCount,
                   revokeCount, loadCalls, lastLoaded, pagesReported, records,
                   fileSize, sizeUnit>>

ZoomIn == ScaleExplored(ZoomInScale(rendered)) /\ SetScale(ZoomInScale(rendered))
ZoomOut == SetScale(ZoomOutScale(rendered))

\* onChange of the search box
SetSearchQuery(query) ==
    /\ Idle
    /\ state' = UpdateState(state, [searchQuery |-> query])
    /\ pageChangeCalls' = <<>>
    /\ delivered' = NoDelivery
    /\ UNCHANGED <<rendered, mounted, initialDocumentId, pdfRequests, nextRequest,
                   maxAnswered, listInFlight, listLoads, createdCount,
                   revokeCount, loadCalls, lastLoaded, pagesReported, records,
                   fileSize, sizeUnit>>

\* onChange of the category select, whose options are the categories present
SetSelectedCategory(category) ==
    /\ Idle
    /\ category \in CategoryOptions(rendered, records)
    /\ state' = UpdateState(state, [selectedCategory |-> category])
    /\ pageChangeCalls' = <<>>
    /\ delivered' = NoDelivery
    /\ UNCHANGED <<rendered, mounted, initialDocumentId, pdfRequests, nextRequest,
                   maxAnswered, listInFlight, listLoads, createdCount,
                   revokeCount, loadCalls, lastLoaded, pagesReported, records,
                   fileSize, sizeUnit>>

Next ==
    \/ \E doc \in DocIds : HandleDocumentSelect(doc)
    \/ ReloadDocument
    \/ Retry
    \/ OnLoadError
    \/ FetchDocuments
    \/ \E docs \in Catalogs : DocumentsLoaded(docs)
    \/ DocumentsFailed
    \/ \E r \in pdfRequests, resp \in Responses : PdfResponse(r, resp)
    \/ Commit
    \/ Unmount

Spec == Init /\ [][Next]_vars

\* ------------------------------------------- selection, pages, navigation
\* the outcomes of a binary fetch that matter to the page fields
PageResponses == {HttpResponse("200", TRUE, PdfMediaType, TRUE), NetworkError}

\* clicks on the navigation controls, which are rendered with the document
\* header and carry their disabled conditions
ClickPreviousPage ==
    ControlsShown(rendered) /\ ~BackwardDisabled(rendered) /\ GoToPreviousPage
ClickNextPage ==
    ControlsShown(rendered) /\ ~ForwardDisabled(rendered) /\ GoToNextPage
ClickFirstPage ==
    ControlsShown(rendered) /\ ~BackwardDisabled(rendered) /\ GoToFirstPage
ClickLastPage ==
    ControlsShown(rendered) /\ ~ForwardDisabled(rendered) /\ GoToLastPage

NextPages ==
    \/ \E docs \in Catalogs : DocumentsLoaded(docs)
    \/ \E doc \in DocIds : HandleDocumentSelect(doc)
    \/ \E r \in pdfRequests, resp \in PageResponses : PdfResponse(r, resp)
    \/ \E n \in 1..MaxPages : OnDocumentLoadSuccess(n)
    \/ ClickPreviousPage
    \/ ClickNextPage
    \/ ClickFirstPage
    \/ ClickLastPage
    \/ Commit

SpecPages == Init /\ [][NextPages]_vars

\* ------------------------------------------ navigation and zoom callbacks
\* A document is displayed, its page count either not yet reported or n, and
\* the current page anywhere in range.
DisplayingState(n, p) ==
    [InitialState EXCEPT !.pdfUrl = 1, !.documents = <<1, 2>>,
                         !.selectedDocument = 1, !.numPages = n,
                         !.pageNumber = p, !.listLoading = FALSE]

InitControls ==
    /\ \E n \in NoPages..MaxPages : \E p \in 1..Max(n, 1) :
           /\ state = DisplayingState(n, p)
           /\ pagesReported = IF n = NoPages THEN NoHandle ELSE 1
    /\ rendered = state
    /\ mounted = TRUE
    /\ initialDocumentId = NoDoc
    /\ pdfRequests = {}
    /\ nextRequest = 1
    /\ maxAnswered = 1
    /\ delivered = NoDelivery
    /\ listInFlight = FALSE
    /\ listLoads = 1
    /\ createdCount = 1
    /\ revokeCount = [h \in Handles |-> 0]
    /\ loadCalls = 1
    /\ lastLoaded = 1
    /\ pageChangeCalls = <<>>
    /\ records = DefaultRecords
    /\ fileSize = ZeroBytes
    /\ sizeUnit = NoUnit

\* the callbacks themselves, whatever the controls allow
NextControls ==
    \/ GoToPreviousPage
    \/ GoToNextPage
    \/ GoToFirstPage
    \/ GoToLastPage
    \/ ZoomIn
    \/ ZoomOut
    \/ Commit

SpecControls == InitControls /\ [][NextControls]_vars

\* ----------------------------------------------------- the document list
\* The catalog has been loaded; its records are arbitrary.
InitFilter ==
    /\ records \in [DocIds -> DocumentRecords]
    /\ fileSize = ZeroBytes
    /\ sizeUnit = NoUnit
    /\ \E docs \in Catalogs :
           state = [InitialState EXCEPT !.documents = docs, !.listLoading = FALSE]
    /\ rendered = state
    /\ mounted = TRUE
    /\ initialDocumentId = NoDoc
    /\ pdfRequests = {}
    /\ nextRequest = 0
    /\ maxAnswered = 0
    /\ delivered = NoDelivery
    /\ listInFlight = FALSE
    /\ listLoads = 1
    /\ createdCount = 0
    /\ revokeCount = [h \in Handles |-> 0]
    /\ loadCalls = 0
    /\ lastLoaded = NoDoc
    /\ pagesReported = NoHandle
    /\ pageChangeCalls = <<>>

NextFilter ==
    \/ \E query \in SearchQueries : SetSearchQuery(query)
    \/ \E category \in Categories \cup {"all"} : SetSelectedCategory(category)
    \/ Commit

SpecFilter == InitFilter /\ [][NextFilter]_vars

\* --------------------------------------------- fetches that are answered
\* selections and their responses in a viewer that stays mounted
NextFetch ==
    \/ \E docs \in Catalogs : DocumentsLoaded(docs)
    \/ DocumentsFailed
    \/ \E doc \in DocIds : HandleDocumentSelect(doc)
    \/ \E r \in pdfRequests, resp \in Responses : PdfResponse(r, resp)
    \/ Commit

\* every binary request is answered, and React re-renders after an update
AnswerFairness ==
    /\ WF_vars(\E r \in pdfRequests, resp \in Responses : PdfResponse(r, resp))
    /\ WF_vars(Commit)

SpecFetch == Init /\ [][NextFetch]_vars /\ AnswerFairness

\* ------------------------------------------------------ byte-size text
\* renderDocumentItem formats the size of a record
FormatFileSize ==
    /\ sizeUnit = NoUnit
    /\ sizeUnit' = FormatFileSizeUnit(fileSize)
    /\ UNCHANGED <<state, rendered, mounted, initialDocumentId, pdfRequests,
                   nextRequest, maxAnswered, delivered, listInFlight, listLoads,
                   createdCount, revokeCount, loadCalls, lastLoaded,
                   pagesReported, pageChangeCalls, records, fileSize>>

\* The catalog has been loaded; the size of a record is any byte count.
InitFormat ==
    /\ fileSize \in FileSizes
    /\ sizeUnit = NoUnit
    /\ state = [InitialState EXCEPT !.documents = <<1, 2>>, !.listLoading = FALSE]
    /\ rendered = state
    /\ mounted = TRUE
    /\ initialDocumentId = NoDoc
    /\ pdfRequests = {}
    /\ nextRequest = 0
    /\ maxAnswered = 0
    /\ delivered = NoDelivery
    /\ listInFlight = FALSE
    /\ listLoads = 1
    /\ createdCount = 0
    /\ revokeCount = [h \in Handles |-> 0]
    /\ loadCalls = 0
    /\ lastLoaded = NoDoc
    /\ pagesReported = NoHandle
    /\ pageChangeCalls = <<>>
    /\ records = DefaultRecords

NextFormat == FormatFileSize

SpecFormat == InitFormat /\ [][NextFormat]_vars

\* ================================================================ claims
\* The step just taken was the continuation of a binary fetch.
Delivered == delivered.id # 0

\* C1: when record B was selected while the fetch of record A was outstanding
\* and B's response has arrived and is displayed, the late response of A
\* changes no field of the viewer state and creates no handle: selectedDocument
\* stays B and pdfUrl stays B's handle.
C1_StaleResponseIgnored ==
    [][(/\ mounted
        /\ delivered'.id # 0 /\ delivered'.id < maxAnswered
        /\ state.selectedDocument # NoDoc
        /\ state.selectedDocument # delivered'.doc)
         => (state' = state /\ createdCount' = createdCount)]_vars

\* C2: in every reachable state at most one handle is live.
C2_AtMostOneLiveHandle == Cardinality(Live) <= 1

\* C3: when a handle is created, every handle created before it has been
\* released.
C3_ReleaseBeforeCreate ==
    [][createdCount' > createdCount
         => \A h \in Created : revokeCount[h] > 0]_vars

\* C4: a binary fetch started while the viewer holds a handle releases that
\* handle and clears pdfUrl before the request is issued, on every path.
C4_ReleasedBeforeRequest ==
    [][(mounted /\ nextRequest' > nextRequest /\ state.pdfUrl # NoHandle)
         => (revokeCount'[state.pdfUrl] > 0 /\ state'.pdfUrl = NoHandle)]_vars

\* C5: the response of a binary fetch that was in flight when the viewer was
\* torn down creates no handle, changes no state and does not call
\* onDocumentLoad.  (Without initialDocumentId no fetch starts after the
\* teardown, so the request answered here was in flight at the teardown.)
C5_ResponseAfterTeardownDiscarded ==
    [][(~mounted /\ initialDocumentId = NoDoc /\ delivered'.id # 0)
         => (createdCount' = createdCount /\ loadCalls' = loadCalls
             /\ state' = state)]_vars

\* C6: once the viewer is torn down and every outstanding response has
\* arrived, every created handle has been released.
C6_NoLeakAfterTeardown ==
    (~mounted /\ pdfRequests = {} /\ ~listInFlight) => Live = {}

\* C7: pdfUrl is never a released handle, and the handle the PDF viewer is
\* rendered with is live.
C7_NoUseAfterRelease ==
    mounted =>
        /\ state.pdfUrl # NoHandle => state.pdfUrl \in Live
        /\ (state = rendered /\ ViewerShown(rendered)) => rendered.pdfUrl \in Live

\* C7 witness: the viewer is rendered with a handle after an earlier handle
\* was released.
C7_Witness ==
    /\ mounted /\ state = rendered /\ ViewerShown(rendered)
    /\ \E h \in Created : h # rendered.pdfUrl /\ revokeCount[h] > 0

\* C8 as stated: a handle is created only for a Content-Type that is exactly
\* application/pdf.
C8_ExactContentType ==
    [][(delivered'.id # 0 /\ createdCount' > createdCount)
         => (delivered'.resp.hasContentType
             /\ delivered'.resp.contentType = PdfMediaType)]_vars

\* C8 amended: a 2xx binary response is accepted only if its Content-Type is
\* present and contains application/pdf; the media type followed by
\* parameters is accepted; every other value, a missing header included, is
\* rejected to Errored with no handle created.
C8_ContentTypeContainsPdf ==
    [][delivered'.id # 0 =>
         LET resp == delivered'.resp
             contains == resp.hasContentType
                         /\ \E i \in DOMAIN resp.contentType :
                              resp.contentType[i] = "application/pdf"
         IN /\ createdCount' > createdCount => contains
            /\ (resp.kind = "http" /\ resp.status = "200" /\ resp.bodyOk /\ contains)
                 => /\ createdCount' = createdCount + 1
                    /\ mounted => (state'.pdfUrl = createdCount' /\ ~state'.loading
                                   /\ state'.selectedDocument = delivered'.doc)
            /\ (resp.kind = "http" /\ resp.status = "200" /\ ~contains)
                 => /\ createdCount' = createdCount
                    /\ mounted => (state'.error # NoError /\ ~state'.loading
                                   /\ state'.pdfUrl = state.pdfUrl)]_vars

\* C8 witness: a response whose Content-Type carries parameters was accepted.
C8_Witness ==
    /\ mounted /\ Delivered
    /\ delivered.resp.contentType = <<"application/pdf", "; charset=utf-8">>
    /\ state.pdfUrl = createdCount /\ state.pdfUrl # NoHandle
    /\ ~state.loading

\* C9: a 200 response with Content-Type text/html ends in Errored: error set,
\* loading false, no handle created, selectedDocument unchanged, no
\* onDocumentLoad call.
C9_HtmlRejected ==
    [][(delivered'.id # 0
        /\ delivered'.resp = HttpResponse("200", TRUE, <<"text/html">>, TRUE))
         => /\ createdCount' = createdCount
            /\ loadCalls' = loadCalls
            /\ mounted => /\ state'.error # NoError
                          /\ ~state'.loading
                          /\ state'.pdfUrl = state.pdfUrl
                          /\ state'.selectedDocument = state.selectedDocument]_vars

\* C9 witness: a 200 text/html response for a record other than the selected
\* one has been handled.
C9_Witness ==
    /\ mounted /\ Delivered
    /\ delivered.resp = HttpResponse("200", TRUE, <<"text/html">>, TRUE)
    /\ state.selectedDocument # delivered.doc
    /\ state.error # NoError

\* C10: a binary fetch that fails in transport or with a non-2xx status ends
\* in Errored with a message that embeds the reason, whatever the
\* Content-Type: no handle, no onDocumentLoad call.
C10_FetchFailureReported ==
    [][(delivered'.id # 0
        /\ (delivered'.resp.kind = "reject" \/ delivered'.resp.status # "200"
            \/ ~delivered'.resp.bodyOk))
         => LET resp == delivered'.resp
                reason == IF resp.kind = "http" /\ resp.status # "200"
                          THEN resp.status ELSE resp.message
            IN /\ createdCount' = createdCount
               /\ loadCalls' = loadCalls
               /\ mounted => /\ ~state'.loading
                             /\ Len(state'.error) > 1
                             /\ state'.error[1] = "Failed to load PDF: "
                             /\ state'.error[Len(state'.error)] = reason]_vars

\* C10 witness: a 404 response that carries Content-Type application/pdf has
\* been handled.
C10_Witness ==
    /\ mounted /\ Delivered
    /\ delivered.resp = HttpResponse("404", TRUE, PdfMediaType, TRUE)
    /\ state.error = <<"Failed to load PDF: ", "HTTP error! status: ", "404">>

\* A step in which fetchPdf issues the request for a record.
FetchIssued == nextRequest' = nextRequest + 1

\* C11: in the step that selects a record and issues its fetch, the page
\* position and page count of the document shown before are dropped at once:
\* pageNumber is 1, numPages is none and error is none, so that neither is
\* visible while the new fetch is in flight or after it has failed.
C11_SelectionResetsPages ==
    [][FetchIssued => /\ state'.pageNumber = 1
                      /\ state'.numPages = NoPages
                      /\ state'.error = NoError]_vars

\* C12: in every state 1 <= pageNumber <= max(numPages, 1), whatever the
\* interleaving of selections, fetch completions, page-count reports (a report
\* may be smaller than the one before) and navigation.
C12_PageInRange ==
    /\ 1 <= state.pageNumber
    /\ state.pageNumber <= Max(state.numPages, 1)

\* C13: with the page count fixed and the current page in range, every
\* sequence of the four navigation callbacks keeps 1 <= pageNumber <=
\* max(numPages, 1); goToNextPage on the last page and goToPreviousPage on
\* page 1 leave the viewer state as it was.
C13_NavigationStaysInRange ==
    /\ [](1 <= state.pageNumber /\ state.pageNumber <= Max(state.numPages, 1))
    /\ [][/\ (GoToNextPage /\ rendered.pageNumber >= PagesOr1(rendered))
               => state' = state
          /\ (GoToPreviousPage /\ rendered.pageNumber <= 1)
               => state' = state]_vars

\* goToNextPage or goToLastPage has just run on the last page of a document
\* of several pages and has changed nothing
C13_Witness ==
    /\ pageChangeCalls # <<>>
    /\ state = rendered
    /\ state.numPages >= 2
    /\ state.pageNumber = state.numPages

\* C14: starting from scale 1.0, after any sequence of zoomIn and zoomOut the
\* scale is at least 0.3; each zoomOut either lowers the scale or leaves it at
\* 0.3, and from 0.3 a zoomOut stays at 0.3, so consecutive zoomOuts reach 0.3
\* and stay there.
C14_ZoomFloor ==
    /\ [](FloatLeq(MinScale, state.scale))
    /\ [][ZoomOut => /\ \/ /\ FloatLeq(state'.scale, state.scale)
                           /\ state'.scale # state.scale
                        \/ state'.scale = MinScale
                     /\ state.scale = MinScale => state'.scale = MinScale]_vars

\* zoomOut has brought the scale down from 1.0 to the floor, where it is
\* rendered
C14_Witness ==
    /\ state.scale = MinScale
    /\ rendered.scale = MinScale

\* C15 (as claimed): a re-fetch of the selected record by one of the retry
\* controls (Try Again, Reload) is triggered only while the error view is
\* shown, with a record selected.
C15_RetryOnlyWhenErrored ==
    [][(Retry \/ ReloadDocument)
          => ErrorShown(rendered) /\ rendered.selectedDocument # NoDoc]_vars

\* C15 (amended): a re-fetch of the selected record by Try Again or Reload
\* happens only with a record selected and no binary fetch loading; it does
\* what selecting that record does: the handle held, if any, is revoked and
\* cleared, loading is set, error cleared, and one request for the selected
\* record is issued.
C15_RefetchOfSelected ==
    [][(Retry \/ ReloadDocument)
          => /\ state.selectedDocument # NoDoc
             /\ ~state.loading
             /\ revokeCount' = Revoke(revokeCount, state.pdfUrl)
             /\ state' = [state EXCEPT !.pdfUrl = NoHandle, !.loading = TRUE,
                                       !.error = NoError]
             /\ pdfRequests' = pdfRequests \cup
                   {[id |-> nextRequest + 1, doc |-> state.selectedDocument]}
             /\ nextRequest' = nextRequest + 1]_vars

\* the record displayed without error is being fetched again
C15_Witness ==
    /\ rendered.selectedDocument # NoDoc
    /\ rendered.pdfUrl # NoHandle /\ rendered.error = NoError /\ ~rendered.loading
    /\ state.loading /\ state.pdfUrl = NoHandle
    /\ revokeCount[rendered.pdfUrl] = 1
    /\ [id |-> nextRequest, doc |-> rendered.selectedDocument] \in pdfRequests

\* C16: whenever the error view shows the failure of a binary fetch or of the
\* rendering, a click on Try Again issues a request, also when the first
\* binary fetch has failed and no record is selected yet.
C16_RetryIssuesRequest ==
    (/\ Idle
     /\ ErrorShown(rendered)
     /\ rendered.error # <<"Failed to load documents from server">>
     /\ nextRequest < MaxFetches)
        => ENABLED Retry

\* C17: a load error reported by the rendering while a document is displayed
\* leaves the viewer as a failed binary fetch issued from that state would:
\* error set, loading false, pdfUrl none with the handle that was displayed
\* revoked, selectedDocument unchanged.
C17_RenderErrorLikeFetchFailure ==
    [][OnLoadError
          => /\ state'.error # NoError
             /\ ~state'.loading
             /\ state'.pdfUrl = NoHandle
             /\ revokeCount'[state.pdfUrl] = 1
             /\ state'.selectedDocument = state.selectedDocument]_vars

\* C18: onDocumentLoad is called exactly once in each step in which a
\* successful binary fetch brings a document to display, with the record that
\* was fetched; it is not called in the step of a fetch that fails or whose
\* content type is rejected, nor in any other step.
C18_OnDocumentLoadOncePerSuccess ==
    [][IF Delivered' /\ FetchError(delivered'.resp) = NoError
         THEN /\ loadCalls' = loadCalls + 1
              /\ lastLoaded' = delivered'.doc
              /\ mounted => /\ state'.pdfUrl = createdCount'
                            /\ state'.selectedDocument = delivered'.doc
         ELSE loadCalls' = loadCalls /\ lastLoaded' = lastLoaded]_vars

\* a successful fetch has just displayed its record and reported it
C18_Witness ==
    /\ Delivered
    /\ FetchError(delivered.resp) = NoError
    /\ mounted
    /\ state.selectedDocument = delivered.doc
    /\ lastLoaded = delivered.doc
    /\ loadCalls = 2

\* C19: each navigation action calls onPageChange exactly once, with the
\* pageNumber that results from it; a page-count report and the success of a
\* load (which resets pageNumber to 1) do not call it.
C19_OnPageChangePerNavigation ==
    [][/\ (ClickPreviousPage \/ ClickNextPage \/ ClickFirstPage \/ ClickLastPage)
            => pageChangeCalls' = <<state'.pageNumber>>
       /\ ((\E n \in 1..MaxPages : OnDocumentLoadSuccess(n)) \/ Delivered')
            => pageChangeCalls' = <<>>]_vars

\* a navigation action has just moved to page 2 and reported it
C19_Witness ==
    /\ pageChangeCalls = <<2>>
    /\ state.pageNumber = 2
    /\ rendered.pageNumber # 2

\* the letters c and d are the same up to case
SameLetter(c, d) == c = d \/ {c, d} = {"a", "A"} \/ {c, d} = {"b", "B"}

\* query occurs in text as a contiguous piece, case ignored
ContainsIgnoringCase(text, query) ==
    \E k \in 0..Len(text) :
        /\ k + Len(query) <= Len(text)
        /\ \A i \in 1..Len(query) : SameLetter(text[k + i], query[i])

\* the record id is to be listed under the search text and category of s
Listed(s, id) ==
    /\ \/ s.searchQuery = <<>>
       \/ ContainsIgnoringCase(records[id].fileName, s.searchQuery)
       \/ ContainsIgnoringCase(records[id].author, s.searchQuery)
    /\ s.selectedCategory = "all" \/ records[id].category = s.selectedCategory

\* the position of id in the catalog of s
PositionIn(s, id) == CHOOSE i \in DOMAIN s.documents : s.documents[i] = id

\* C20: the list displayed is the subsequence of the catalog, in catalog
\* order, of exactly the records whose file name or author contains the search
\* text case-insensitively (or the search text is empty) and whose category is
\* the selected one (or "all" is selected); with an empty search text and
\* "all" it is the whole catalog; typing a search text or choosing a category
\* leaves the catalog as it was.
C20_FilteredList ==
    /\ [](LET shown == FilteredDocuments(state, records)
          IN  /\ \A i \in DOMAIN shown :
                    shown[i] \in ElemsOf(state.documents) /\ Listed(state, shown[i])
              /\ \A id \in ElemsOf(state.documents) :
                    Listed(state, id) => id \in ElemsOf(shown)
              /\ \A i, j \in DOMAIN shown :
                    i < j => PositionIn(state, shown[i]) < PositionIn(state, shown[j])
              /\ (state.searchQuery = <<>> /\ state.selectedCategory = "all")
                    => shown = state.documents)
    /\ [][state'.documents = state.documents]_vars

\* a mixed-case search text lists one of the two records of the catalog
C20_Witness ==
    /\ state.searchQuery = <<"A", "b">>
    /\ Len(state.documents) = 2
    /\ Len(FilteredDocuments(state, records)) = 1

\* C21: while the viewer is mounted, a catalog request that fails leaves
\* error at the generic failed-to-load-documents message, listLoading false
\* and documents as they were before the call; one that succeeds leaves
\* documents equal to the response, in the order of the response, and
\* listLoading false.
C21_CatalogResponse ==
    [][/\ (mounted /\ DocumentsFailed)
            => /\ state'.error = <<"Failed to load documents from server">>
               /\ ~state'.listLoading
               /\ state'.documents = state.documents
       /\ \A docs \in Catalogs :
             (mounted /\ DocumentsLoaded(docs))
                => state'.documents = docs /\ ~state'.listLoading]_vars

\* a refresh has failed and the catalog loaded before is still there
C21_Witness ==
    /\ mounted
    /\ ~listInFlight
    /\ listLoads = 2
    /\ state.error = <<"Failed to load documents from server">>
    /\ state.documents = <<2, 1>>
    /\ ~state.listLoading

\* A step of fetchDocuments: its start or one of its continuations.
CatalogStep ==
    FetchDocuments \/ DocumentsFailed \/ \E docs \in Catalogs : DocumentsLoaded(docs)

\* C22 (as claimed): no step of loading the catalog, at start-up or on
\* refresh, starts a binary request or changes selectedDocument, pdfUrl or
\* loading.
C22_CatalogNeverFetchesBinary ==
    [][CatalogStep => /\ pdfRequests' = pdfRequests
                      /\ nextRequest' = nextRequest
                      /\ state'.selectedDocument = state.selectedDocument
                      /\ state'.pdfUrl = state.pdfUrl
                      /\ state'.loading = state.loading]_vars

\* C22 (amended): loading the catalog starts a binary request only by
\* auto-selecting initialDocumentId: when the response holds the record with
\* that id, its continuation starts exactly one binary request, for that
\* record; every other step of loading the catalog starts none, revokes
\* nothing and leaves pdfUrl and loading as they were. No step of it changes
\* selectedDocument.
C22_CatalogFetchesOnlyInitialDocument ==
    [][\A docs \in Catalogs :
          (FetchDocuments \/ DocumentsFailed \/ DocumentsLoaded(docs))
             => /\ state'.selectedDocument = state.selectedDocument
                /\ IF DocumentsLoaded(docs) /\ initialDocumentId \in ElemsOf(docs)
                     THEN /\ nextRequest' = nextRequest + 1
                          /\ pdfRequests' = pdfRequests \cup
                                {[id |-> nextRequest + 1, doc |-> initialDocumentId]}
                     ELSE /\ pdfRequests' = pdfRequests
                          /\ nextRequest' = nextRequest
                          /\ revokeCount' = revokeCount
                          /\ state'.pdfUrl = state.pdfUrl
                          /\ state'.loading = state.loading]_vars

\* a refresh has auto-selected the initial record while another document was
\* displayed
C22_Witness ==
    /\ initialDocumentId = 1
    /\ listLoads = 2
    /\ ~listInFlight
    /\ [id |-> nextRequest, doc |-> 1] \in pdfRequests
    /\ state.loading
    /\ state.pdfUrl # NoHandle

\* C23: in every state selectedDocument is none or one of the records of
\* documents, also after a refresh has replaced documents by a response that
\* no longer holds the selected record.
C23_SelectedInCatalog ==
    state.selectedDocument = NoDoc \/ state.selectedDocument \in ElemsOf(state.documents)

\* C24: a page-count report of n sets numPages to n and leaves every other
\* field of the viewer state as it was (pageNumber, selectedDocument, pdfUrl,
\* scale, loading, listLoading, error, the catalog and the filter), also when
\* pageNumber is greater than n.
C24_PageCountReportFrame ==
    [][\A n \in 1..MaxPages :
          OnDocumentLoadSuccess(n) => state' = [state EXCEPT !.numPages = n]]_vars

\* a report has just left the current page above the reported count
C24_Witness ==
    /\ pagesReported = state.pdfUrl
    /\ state.pdfUrl # NoHandle
    /\ state.numPages # rendered.numPages
    /\ state.pageNumber > state.numPages
    /\ state.pageNumber = rendered.pageNumber

\* C25: for every byte count of at least 1 the unit of the formatted size is
\* one of the four labels Bytes, KB, MB, GB, and a count of 1024^4 or more is
\* given the label GB.
C25_UnitWithinLabels ==
    (sizeUnit # NoUnit /\ fileSize # ZeroBytes)
       => /\ sizeUnit \in ElemsOf(Sizes)
          /\ Len(fileSize) > Len(Sizes) => sizeUnit = "GB"

\* C26: while the viewer is mounted, loading is true exactly when at least
\* one binary request is outstanding: never false with a request in flight
\* (as after the first of two overlapping fetches completes), never true when
\* every response has arrived.
C26_LoadingIffRequestOutstanding ==
    mounted => (state.loading <=> pdfRequests # {})

\* the four views of the main panel, by the condition each is rendered under
LoadingViewShown(s) == s.loading
EmptyViewShown(s) == s.selectedDocument = NoDoc /\ ~s.loading /\ s.error = NoError
ViewsShown(s) ==
    {v \in {"loading", "error", "empty", "viewer"} :
        \/ v = "loading" /\ LoadingViewShown(s)
        \/ v = "error" /\ ErrorShown(s)
        \/ v = "empty" /\ EmptyViewShown(s)
        \/ v = "viewer" /\ ViewerShown(s)}

\* C27: every render of the mounted viewer shows exactly one of the four
\* main-panel views (loading, error, empty, PDF viewer), never none and never
\* two, also after a catalog refresh has cleared the error of a failed binary
\* fetch.
C27_ExactlyOneView ==
    mounted => Cardinality(ViewsShown(rendered)) = 1

\* C28: URL.revokeObjectURL is called at most once for each handle created,
\* counting the revoke inside fetchPdf and the revoke of the effect cleanup
\* that runs when pdfUrl changes or the viewer unmounts.
C28_NoDoubleRevoke ==
    \A h \in Handles : revokeCount[h] <= 1

\* C29: when every binary request issued is answered, a viewer that is
\* loading comes to a state with loading false that holds a document handle
\* or an error; and loading is never true while no request is outstanding.
C29_FetchingTerminates ==
    /\ [](pdfRequests = {} => ~state.loading)
    /\ state.loading
          ~> (/\ ~state.loading
              /\ pdfRequests = {}
              /\ state.error # NoError \/ state.pdfUrl # NoHandle)

\* the last outstanding request has just been answered with a failure
C29_Witness ==
    /\ Delivered
    /\ FetchError(delivered.resp) # NoError
    /\ delivered.id = 2
    /\ pdfRequests = {}
    /\ ~state.loading
    /\ state.error # NoError

\* C30: for every zoom factor z the viewer reaches, zoomIn followed by zoomOut
\* gives z again.
C30_ZoomInThenOutReturns ==
    LET zoomedIn == [state EXCEPT !.scale = ZoomInScale(state)]
    IN  ZoomOutScale(zoomedIn) = state.scale

====
